---- MODULE Spec2Model ----
(***************************************************************************)
(* Model of the hyocard relay service (src/main.py): a FastAPI application *)
(* with GET /health and POST /process.  /process reads an uploaded image,  *)
(* selects one of two prompts by mode, and runs call_gemini on the default *)
(* thread-pool executor; call_gemini base64-encodes the image, builds the  *)
(* optional JSON schema config, calls the upstream generate_content once   *)
(* and returns the response text or raises RuntimeError.                   *)
(*                                                                         *)
(* Each request slot r is one in-progress /process request.  Its position  *)
(* is pc[r]:                                                               *)
(*   idle     - no request in the slot                                     *)
(*   reading  - handler suspended at `await image.read()`                  *)
(*   queued   - call_gemini submitted to the executor, not yet started     *)
(*   inflight - worker thread is inside client.models.generate_content     *)
(*   done     - handler returned its HTTP response                         *)
(* The completion of the upstream call, the completion of the executor     *)
(* future and the resumption of the handler touch only the request's own   *)
(* state and are one step (Complete).                                      *)
(***************************************************************************)
EXTENDS Naturals, Sequences, FiniteSets, TLC

VARIABLES
    client,      \* the process-wide genai.Client handle (api key it was built with)
    pc,          \* pc[r]: position of request r
    req,         \* req[r]: the request's form fields (image upload, mode as submitted)
    locals,      \* locals[r]: handler locals image_bytes, mime_type, prompt, mode
    sent,        \* sent[r]: sequence of generate_content calls issued for r
    upstream,    \* upstream[r]: what generate_content did for r (returned/raised)
    future,      \* future[r]: result of the executor future awaited by the handler
    responses,   \* responses[r]: sequence of HTTP responses sent for r
    healthResp   \* the outcome of the GET /health request being delivered, if any

vars == <<client, pc, req, locals, sent, upstream, future, responses, healthResp>>

requestVars == <<client, pc, req, locals, sent, upstream, future, responses>>

\* ---------------------------------------------------------------- bounds

\* number of /process requests that can be in progress at the same time
NumRequests == 2

Requests == 1..NumRequests

\* size of the default ThreadPoolExecutor used by run_in_executor(None, ...):
\* min(32, cpu_count + 4), which is at least 5
DefaultMaxWorkers == 5

None == "None"

\* ---------------------------------------------------------------- constants of main.py

\* os.getenv("GEMINI_MODEL", "gemini-2.5-flash"): the default
MODEL == "gemini-2.5-flash"

EXPLAIN_PROMPT == "You are a clear, friendly Korean tutor. ..."

FLASHCARD_PROMPT == "You are an assistant that creates Anki flashcards from study notes. ..."

\* types.GenerateContentConfig(response_mime_type=..., response_schema=...)
FlashcardConfig ==
    [response_mime_type |-> "application/json",
     response_schema |->
        [type |-> "ARRAY",
         items |-> [type |-> "OBJECT",
                    properties |-> [question |-> [type |-> "STRING"],
                                    answer |-> [type |-> "STRING"]]]]]

\* ---------------------------------------------------------------- inputs

\* values of the GEMINI_API_KEY environment variable at start-up
ApiKeys == {None, "key"}

\* uploads: the file's bytes and its declared content type (None or empty
\* when the client declares none)
Uploads ==
    {[bytes |-> <<77, 97, 110>>, content_type |-> "image/jpeg"],
     [bytes |-> <<77>>, content_type |-> None]}

\* the `mode` form field as submitted: omitted, or a string
Omitted == "<omitted>"

ModeFields == {Omitted, "explain", "flashcards", "flashcard"}

\* exceptions `await image.read()` can raise
ReadErrors == {[type |-> "OSError", msg |-> "read failed"]}

\* what the upstream generate_content call can do: return a response object
\* whose text attribute holds a string, holds None, or is missing; or raise
UpstreamOutcomes ==
    {[kind |-> "response", has_text |-> TRUE, text |-> "Hello"],
     [kind |-> "response", has_text |-> TRUE, text |-> ""],
     [kind |-> "response", has_text |-> TRUE, text |-> None],
     [kind |-> "response", has_text |-> FALSE, text |-> None],
     [kind |-> "raise", type |-> "ValueError", msg |-> "quota"],
     [kind |-> "raise", type |-> "RuntimeError", msg |-> "network"]}

\* ---------------------------------------------------------------- base64

B64Alphabet ==
    <<"A","B","C","D","E","F","G","H","I","J","K","L","M","N","O","P",
      "Q","R","S","T","U","V","W","X","Y","Z","a","b","c","d","e","f",
      "g","h","i","j","k","l","m","n","o","p","q","r","s","t","u","v",
      "w","x","y","z","0","1","2","3","4","5","6","7","8","9","+","/">>

B64Char(n) == B64Alphabet[n + 1]

RECURSIVE b64encode(_)
b64encode(bs) ==
    IF Len(bs) = 0 THEN <<>>
    ELSE IF Len(bs) = 1 THEN
        <<B64Char(bs[1] \div 4), B64Char((bs[1] % 4) * 16), "=", "=">>
    ELSE IF Len(bs) = 2 THEN
        <<B64Char(bs[1] \div 4),
          B64Char((bs[1] % 4) * 16 + bs[2] \div 16),
          B64Char((bs[2] % 16) * 4), "=">>
    ELSE
        <<B64Char(bs[1] \div 4),
          B64Char((bs[1] % 4) * 16 + bs[2] \div 16),
          B64Char((bs[2] % 16) * 4 + bs[3] \div 64),
          B64Char(bs[3] % 64)>> \o b64encode(SubSeq(bs, 4, Len(bs)))

\* ---------------------------------------------------------------- call_gemini

make_config_always(mode) == <<FlashcardConfig>>

\* config is None unless mode == "flashcards"; an absent config is <<>>,
\* a present one is the one-element sequence holding it
make_config(mode) ==
    IF mode = "flashcards" THEN <<FlashcardConfig>> ELSE <<>>

\* the arguments of client.models.generate_content built by call_gemini
call_gemini_request(prompt_template, image_bytes, mime_type, mode) ==
    [model |-> MODEL,
     contents |->
        <<[role |-> "user",
           parts |-> <<[text |-> prompt_template],
                       [inline_data |-> [mime_type |-> mime_type,
                                         data |-> b64encode(image_bytes)]]>>]>>,
     config |-> make_config(mode)]

NoFuture == [kind |-> "none", value |-> None, type |-> None, msg |-> <<>>]

FutureValue(v) == [kind |-> "value", value |-> v, type |-> None, msg |-> <<>>]

FutureException(t, m) == [kind |-> "exception", value |-> None, type |-> t, msg |-> m]

extract_text_truthy(response) ==
    IF response.has_text /\ response.text \notin {None, ""}
    THEN response.text
    ELSE "No text returned"

\* `if hasattr(response, "text"): return response.text` else the literal
extract_text(response) ==
    IF response.has_text THEN response.text ELSE "No text returned"

call_gemini_result_uncaught(outcome) ==
    IF outcome.kind = "response"
    THEN FutureValue(extract_text(outcome))
    ELSE FutureException(outcome.type, outcome.msg)

\* what call_gemini does with the outcome of generate_content: return the
\* text, or catch the exception and raise RuntimeError("Gemini request failed: e")
call_gemini_result(outcome) ==
    IF outcome.kind = "response"
    THEN FutureValue(extract_text(outcome))
    ELSE FutureException("RuntimeError", <<"Gemini request failed: ", outcome.msg>>)

\* ---------------------------------------------------------------- handlers

health_probing_upstream ==
    IF client.api_key = None
    THEN [status |-> 503, body |-> [status |-> "unavailable"], upstream_calls |-> 0]
    ELSE [status |-> 200, body |-> [status |-> "ok"], upstream_calls |-> 1]

\* GET /health: the handler's response and the number of upstream calls it makes
health == [status |-> 200, body |-> [status |-> "ok"], upstream_calls |-> 0]

\* mode: str = Form("explain"): the default applies when the field is omitted
form_mode(field) == IF field = Omitted THEN "explain" ELSE field

\* mime_type = image.content_type or "image/png"
mime_type_of(image) ==
    IF image.content_type \in {None, ""} THEN "image/png" ELSE image.content_type

\* prompt = EXPLAIN_PROMPT if mode == "explain" else FLASHCARD_PROMPT
select_prompt(mode) ==
    IF mode = "explain" THEN EXPLAIN_PROMPT ELSE FLASHCARD_PROMPT

\* return {"result": result_text}
process_return(result_text) ==
    [status |-> 200, body |-> [result |-> result_text]]

process_except_reraise(e) ==
    IF e.type = "RuntimeError"
    THEN [status |-> 500, body |-> [error |-> <<"API error: ", e.msg>>]]
    ELSE [status |-> 500, body |-> [detail |-> <<"Internal Server Error">>]]

\* the two except clauses of process; the messages' Korean prefixes are
\* written in ASCII ("API 처리 오류: " and "서버 처리 오류: " in the source)
process_except(e) ==
    IF e.type = "RuntimeError"
    THEN [status |-> 500, body |-> [error |-> <<"API error: ", e.msg>>]]
    ELSE [status |-> 500, body |-> [error |-> <<"server error: ", e.msg>>]]

\* the response the handler builds when the awaited future completes
process_response(fut) ==
    IF fut.kind = "value"
    THEN process_return(fut.value)
    ELSE process_except(fut)

after_await_retry(fut) == IF fut.kind = "exception" THEN "queued" ELSE "done"

\* where the handler goes when the awaited future completes: every branch
\* (the return and both except clauses) ends the request
after_await(fut) == "done"

lambda_call_shared(r) ==
    LET queued == {q \in Requests : pc[q] = "queued"}
        last == CHOOSE q \in queued : \A p \in queued : q >= p
    IN  call_gemini_request(locals[last].prompt, locals[last].image_bytes,
                            locals[last].mime_type, locals[last].mode)

\* the lambda handed to run_in_executor: it closes over this request's locals
lambda_call(r) ==
    call_gemini_request(locals[r].prompt, locals[r].image_bytes,
                        locals[r].mime_type, locals[r].mode)

\* ---------------------------------------------------------------- state machine

NoReq == [image |-> [bytes |-> <<>>, content_type |-> None], mode |-> None]

NoLocals == [image_bytes |-> <<>>, mime_type |-> None, prompt |-> None, mode |-> None]

NoOutcome == [kind |-> "none"]

InFlight == {r \in Requests : pc[r] = "inflight"}

Init ==
    /\ client \in {[api_key |-> k] : k \in ApiKeys}
    /\ pc = [r \in Requests |-> "idle"]
    /\ req = [r \in Requests |-> NoReq]
    /\ locals = [r \in Requests |-> NoLocals]
    /\ sent = [r \in Requests |-> <<>>]
    /\ upstream = [r \in Requests |-> NoOutcome]
    /\ future = [r \in Requests |-> NoFuture]
    /\ responses = [r \in Requests |-> <<>>]
    /\ healthResp = <<>>

\* a POST /process request arrives; the handler starts and suspends at
\* `await image.read()`
Accept(r, image, field) ==
    /\ pc[r] = "idle"
    /\ req' = [req EXCEPT ![r] = [image |-> image, mode |-> field]]
    /\ pc' = [pc EXCEPT ![r] = "reading"]
    /\ UNCHANGED <<client, locals, sent, upstream, future, responses, healthResp>>

\* image.read() returns: the handler computes mime_type and prompt and
\* submits call_gemini to the default executor
ReadUpload(r) ==
    /\ pc[r] = "reading"
    /\ locals' = [locals EXCEPT ![r] =
                    [image_bytes |-> req[r].image.bytes,
                     mime_type |-> mime_type_of(req[r].image),
                     prompt |-> select_prompt(form_mode(req[r].mode)),
                     mode |-> form_mode(req[r].mode)]]
    /\ pc' = [pc EXCEPT ![r] = "queued"]
    /\ UNCHANGED <<client, req, sent, upstream, future, responses, healthResp>>

\* image.read() raises: the generic except clause answers the request
ReadFails(r, e) ==
    /\ pc[r] = "reading"
    /\ responses' = [responses EXCEPT ![r] = Append(@, process_except(e))]
    /\ pc' = [pc EXCEPT ![r] = "done"]
    /\ UNCHANGED <<client, req, locals, sent, upstream, future, healthResp>>

StartCallOnLoop(r) ==
    /\ pc[r] = "queued"
    /\ InFlight = {}
    /\ sent' = [sent EXCEPT ![r] = Append(@, lambda_call(r))]
    /\ pc' = [pc EXCEPT ![r] = "inflight"]
    /\ UNCHANGED <<client, req, locals, upstream, future, responses, healthResp>>

\* a free worker thread of the executor runs the lambda: call_gemini encodes
\* the image, builds config and calls generate_content
StartCall(r) ==
    /\ pc[r] = "queued"
    /\ Cardinality(InFlight) < DefaultMaxWorkers
    /\ sent' = [sent EXCEPT ![r] = Append(@, lambda_call(r))]
    /\ pc' = [pc EXCEPT ![r] = "inflight"]
    /\ UNCHANGED <<client, req, locals, upstream, future, responses, healthResp>>

\* generate_content returns or raises; call_gemini returns the text or
\* raises RuntimeError, which completes the future; the event loop resumes
\* the handler after `await loop.run_in_executor(...)`
Complete(r, outcome) ==
    /\ pc[r] = "inflight"
    /\ upstream' = [upstream EXCEPT ![r] = outcome]
    /\ future' = [future EXCEPT ![r] = call_gemini_result(outcome)]
    /\ pc' = [pc EXCEPT ![r] = after_await(call_gemini_result(outcome))]
    /\ IF after_await(call_gemini_result(outcome)) = "done"
       THEN responses' = [responses EXCEPT ![r] =
                            Append(@, process_response(call_gemini_result(outcome)))]
       ELSE UNCHANGED responses
    /\ UNCHANGED <<client, req, locals, sent, healthResp>>

\* the response has been delivered; nothing of the request is retained
Forget(r) ==
    /\ pc[r] = "done"
    /\ pc' = [pc EXCEPT ![r] = "idle"]
    /\ req' = [req EXCEPT ![r] = NoReq]
    /\ locals' = [locals EXCEPT ![r] = NoLocals]
    /\ sent' = [sent EXCEPT ![r] = <<>>]
    /\ upstream' = [upstream EXCEPT ![r] = NoOutcome]
    /\ future' = [future EXCEPT ![r] = NoFuture]
    /\ responses' = [responses EXCEPT ![r] = <<>>]
    /\ UNCHANGED <<client, healthResp>>

\* a GET /health request is handled
HealthRequest ==
    /\ healthResp' = <<health>>
    /\ UNCHANGED requestVars

\* the /health response has been delivered
HealthDelivered ==
    /\ healthResp # <<>>
    /\ healthResp' = <<>>
    /\ UNCHANGED requestVars

Next ==
    \/ \E r \in Requests, image \in Uploads, field \in ModeFields : Accept(r, image, field)
    \/ \E r \in Requests : ReadUpload(r)
    \/ \E r \in Requests, e \in ReadErrors : ReadFails(r, e)
    \/ \E r \in Requests : StartCall(r)
    \/ \E r \in Requests, outcome \in UpstreamOutcomes : Complete(r, outcome)
    \/ \E r \in Requests : Forget(r)
    \/ HealthRequest
    \/ HealthDelivered

Spec == Init /\ [][Next]_vars

\* ---------------------------------------------------------------- properties

\* the upstream call issued for r (defined once the call has been made)
Call(r) == sent[r][1]

CallPrompt(r) == Call(r).contents[1].parts[1].text

CallConfig(r) == Call(r).config

Called(r) == Len(sent[r]) >= 1

Answered(r) == pc[r] = "done"

\* C1: every request whose mode is not the literal "explain" is sent upstream
\* with the flashcard prompt and with the question/answer array schema config.
C1Claim ==
    \A r \in Requests :
        (Called(r) /\ form_mode(req[r].mode) # "explain")
            => /\ CallPrompt(r) = FLASHCARD_PROMPT
               /\ CallConfig(r) = <<FlashcardConfig>>

\* C2: every request whose mode is "explain" (given or by omission of the
\* field) is sent upstream with the explanation prompt and with no config.
C2Theorem ==
    \A r \in Requests :
        (Called(r) /\ req[r].mode \in {"explain", Omitted})
            => /\ CallPrompt(r) = EXPLAIN_PROMPT
               /\ CallConfig(r) = <<>>

C2Witness ==
    \E r1, r2 \in Requests :
        /\ Called(r1) /\ req[r1].mode = "explain"
        /\ Called(r2) /\ req[r2].mode = Omitted

\* C3: when the upstream call returned a response carrying text T, the request
\* is answered with HTTP 200 and body {"result": T}, T unmodified.
C3Theorem ==
    \A r \in Requests :
        (/\ Answered(r)
         /\ upstream[r].kind = "response"
         /\ upstream[r].has_text
         /\ upstream[r].text # None)
            => responses[r] = <<[status |-> 200, body |-> [result |-> upstream[r].text]]>>

C3Witness ==
    \E r1, r2 \in Requests :
        /\ Answered(r1) /\ upstream[r1].kind = "response" /\ upstream[r1].has_text
        /\ upstream[r1].text = "Hello" /\ form_mode(req[r1].mode) = "explain"
        /\ Answered(r2) /\ upstream[r2].kind = "response" /\ upstream[r2].has_text
        /\ upstream[r2].text = "" /\ form_mode(req[r2].mode) = "flashcards"

\* C4: when the upstream call returned a response without text (the text
\* attribute is missing or holds no value), the request is answered with
\* {"result": "No text returned"}.
C4Claim ==
    \A r \in Requests :
        (/\ Answered(r)
         /\ upstream[r].kind = "response"
         /\ (~upstream[r].has_text \/ upstream[r].text = None))
            => /\ Len(responses[r]) = 1
               /\ responses[r][1].body.result = "No text returned"

\* C5: when the upstream call raised, call_gemini re-raised it as RuntimeError
\* and the request is answered with HTTP 500 and a body holding an `error`
\* key and no `result` key.
C5Theorem ==
    \A r \in Requests :
        (Answered(r) /\ upstream[r].kind = "raise")
            => /\ future[r].kind = "exception"
               /\ future[r].type = "RuntimeError"
               /\ future[r].msg = <<"Gemini request failed: ", upstream[r].msg>>
               /\ Len(responses[r]) = 1
               /\ responses[r][1].status = 500
               /\ "error" \in DOMAIN responses[r][1].body
               /\ "result" \notin DOMAIN responses[r][1].body

C5Witness ==
    \E r \in Requests :
        /\ Answered(r) /\ upstream[r].kind = "raise" /\ upstream[r].type = "ValueError"
        /\ responses[r][1].status = 500

\* C6: a GET /health request is always answered with HTTP 200 and
\* {"status": "ok"} without any upstream call, whatever the API key and
\* whatever the state of the /process requests.
C6Theorem ==
    /\ ENABLED HealthRequest
    /\ healthResp # <<>> =>
        healthResp = <<[status |-> 200, body |-> [status |-> "ok"], upstream_calls |-> 0]>>

C6Witness ==
    /\ healthResp # <<>>
    /\ client.api_key = None
    /\ \E r1, r2 \in Requests :
        /\ Answered(r1) /\ responses[r1][1].status = 500
        /\ pc[r2] = "inflight"

\* C7: while one request's upstream call is in flight, a second request that
\* has been dispatched can start its own call, and of two calls in flight
\* each can complete without the other completing first.
C7Theorem ==
    \A r1, r2 \in Requests :
        (r1 # r2 /\ pc[r1] = "inflight")
            => /\ (pc[r2] = "queued" /\ InFlight = {r1}) => ENABLED StartCall(r2)
               /\ pc[r2] = "inflight" =>
                    \A outcome \in UpstreamOutcomes : ENABLED Complete(r2, outcome)

C7Witness ==
    \E r1, r2 \in Requests : r1 # r2 /\ pc[r1] = "inflight" /\ pc[r2] = "inflight"

\* C8: a request issues at most one upstream call: none before its worker
\* starts or when reading the upload failed, exactly one once the upload was
\* read and the call was started, also after the call failed.
C8Theorem ==
    \A r \in Requests :
        /\ Len(sent[r]) <= 1
        /\ pc[r] \in {"idle", "reading", "queued"} => Len(sent[r]) = 0
        /\ pc[r] = "inflight" => Len(sent[r]) = 1
        /\ Answered(r) => Len(sent[r]) = (IF locals[r] # NoLocals THEN 1 ELSE 0)
        /\ upstream[r].kind = "raise" => (Answered(r) /\ Len(sent[r]) = 1)

C8Witness ==
    \E r \in Requests :
        /\ Answered(r) /\ upstream[r].kind = "raise" /\ Len(sent[r]) = 1
        /\ responses[r][1].status = 500 /\ Len(responses[r]) = 1

\* C9: two requests with the same inputs are sent upstream identically, and
\* with the same upstream outcome they are answered identically, whatever
\* other requests ran before or run at the same time.
C9Theorem ==
    \A r1, r2 \in Requests :
        (pc[r1] # "idle" /\ pc[r2] # "idle" /\ req[r1] = req[r2])
            => /\ (Called(r1) /\ Called(r2)) => sent[r1] = sent[r2]
               /\ (/\ Answered(r1) /\ Answered(r2)
                   /\ upstream[r1].kind = upstream[r2].kind
                   /\ upstream[r1] = upstream[r2])
                    => responses[r1] = responses[r2]

C9Witness ==
    \E r1, r2 \in Requests :
        /\ r1 # r2 /\ req[r1] = req[r2]
        /\ Answered(r1) /\ Called(r1) /\ upstream[r1].kind = "response"
        /\ Answered(r2) /\ Called(r2) /\ upstream[r2] = upstream[r1]

\* C10: a request is answered exactly once, when it is done and not before,
\* with HTTP 200 and a body holding only `result` or with HTTP 500 and a body
\* holding only `error`; a failure to read the upload is answered with the
\* latter without any upstream call.
C10Theorem ==
    \A r \in Requests :
        /\ Len(responses[r]) = (IF Answered(r) THEN 1 ELSE 0)
        /\ Answered(r) =>
            /\ \/ responses[r][1].status = 200 /\ DOMAIN responses[r][1].body = {"result"}
               \/ responses[r][1].status = 500 /\ DOMAIN responses[r][1].body = {"error"}
            /\ locals[r] = NoLocals =>
                /\ responses[r][1].status = 500
                /\ DOMAIN responses[r][1].body = {"error"}
                /\ sent[r] = <<>>

C10Witness ==
    \E r1, r2 \in Requests :
        /\ Answered(r1) /\ locals[r1] = NoLocals /\ responses[r1][1].status = 500
        /\ Answered(r2) /\ responses[r2][1].status = 200

====
